---- MODULE Spec2Model ----
(***************************************************************************)
(* A model of research.py: the bounded fetcher (semaphore + retry          *)
(* decorator), the per-(conference, year) scrape pipeline, and the         *)
(* merge-and-dedup tail of scrape_mode, the contact search of              *)
(* get_contacts, and the /findcontact and /getcontacts commands of         *)
(* analyze_mode up to their call of get_contacts.                          *)
(*                                                                         *)
(* asyncio runs one task at a time and switches only at an await, so an    *)
(* action is what one task does between two suspension points.             *)
(***************************************************************************)
EXTENDS Integers, Sequences, FiniteSets, TLC

VARIABLES
    years,        \* args.years as a pair <<start, end>>
    parallel,     \* args.parallel
    csv,          \* the output file: NoFile, or File(its data rows)
    schedule,     \* the site: number of poster cards on each target's schedule page
    site,         \* the site: the paper pages and author pages it can serve
    faults,       \* transient network errors the environment may still produce
    phase,        \* position of scrape_mode
    targets,      \* the (conference, year) pairs of the batch, in gather order
    existing_df,  \* rows read from the output file
    permits,      \* OPEN_REQUESTS._value
    pbar,         \* REQUESTS_PBAR: [total, n]
    tpc,          \* position of each Conference.scrape coroutine
    index_call,   \* per target: the load_paper_ids task's fetch call
    paper_calls,  \* per target: the load_paper tasks, in paper_ids order
    author_ids,   \* per target: list(set(...)) of the referenced author ids
    author_calls, \* per target: the load_author tasks, in author_ids order
    results,      \* per target: the rows of the returned DataFrame
    combined_df   \* rows after concat + drop_duplicates (<<>> until merged)

\* get_contacts: its argument, its locals, and what it calls
VARIABLES
    authors_with_affiliations, \* the argument: (author, affiliation) pairs
    web,            \* the search provider and the web: which of the modelled webs
    cpc,            \* position of the get_contacts coroutine
    pair_i,         \* i: enumerate index of the pair being processed (0-based)
    search_results, \* URLs of the "contact email" search
    personal_site,
    linkedin_url,
    scholar_url,
    email,
    url_index,      \* position of `for url in search_results` (1-based)
    response,       \* the last answer of session.get
    contacts_data,  \* the records appended so far
    trace           \* the sleeps, searches and page fetches started, in order

contactVars == <<authors_with_affiliations, web, cpc, pair_i, search_results,
                 personal_site, linkedin_url, scholar_url, email, url_index,
                 response, contacts_data, trace>>

vars_scrape == <<years, parallel, csv, schedule, site, faults, phase, targets,
                 existing_df, permits, pbar, tpc, index_call, paper_calls, author_ids,
                 author_calls, results, combined_df>>

\* analyze_mode: the table it loads and the command it is serving
VARIABLES
    df,       \* pd.read_csv(args.output)
    command,  \* the command read at the prompt, parsed
    apc       \* position of the analyze_mode coroutine

analyzeVars == <<df, command, apc>>

vars == <<vars_scrape, contactVars, analyzeVars>>

---------------------------------------------------------------------------
(* Bounds of the model *)

MaxParallel == 2
MaxFaults == 1
MaxPapers == 2
MaxEntries == 2
MaxRows == 2
MaxPairs == 2
MaxResults == 2
MaxLinks == 2
MaxFound == 2
MaxTable == 3

(* Program constants *)

n_tries == 5

CONFERENCES ==
    << [name |-> "ICML",    first_year |-> 2017],
       [name |-> "NeurIPS", first_year |-> 2006],
       [name |-> "ICLR",    first_year |-> 2018] >>

NOT_AVAILABLE == "n/a"

---------------------------------------------------------------------------
(* Values *)

\* the output file: absent, or its data rows
NoFile == [exists |-> FALSE, rows |-> <<>>]
File(rows) == [exists |-> TRUE, rows |-> rows]
None == "None"
NaN == "NaN"

YearArgs == { <<2005, 2005>>, <<2005, 2006>>, <<2017, 2017>> }

Titles == <<"T1", "T2", "T3", "T4">>
Names == {"Ann", "Bob"}
AuthorIdSet == {"7", "8"}
Affiliations == {"MIT", "CMU"}

AuthorEntries == [name : Names, id : AuthorIdSet]
AuthorPages == [name : Names, affiliation : Affiliations]

SeqsUpTo(S, n) == UNION { [1..k -> S] : k \in 0..n }

Min(a, b) == IF a < b THEN a ELSE b
Max(a, b) == IF a > b THEN a ELSE b

RECURSIVE Flatten(_)
Flatten(ss) == IF ss = <<>> THEN <<>> ELSE Head(ss) \o Flatten(Tail(ss))

RECURSIVE SumSeq(_)
SumSeq(s) == IF s = <<>> THEN 0 ELSE Head(s) + SumSeq(Tail(s))

---------------------------------------------------------------------------
(* scrape_mode: the targets of a batch *)

\* range(start, end + 1) without the filter on conf.first_year
YearsOfUnfiltered(conf, start, end) ==
    [i \in 1..Max(0, end - start + 1) |-> [conf |-> conf.name, year |-> start + i - 1]]

\* range(start, end + 1) filtered by year >= conf.first_year, for one conference
YearsOf(conf, start, end) ==
    LET lo == Max(start, conf.first_year)
        n  == Max(0, end - lo + 1)
    IN  [i \in 1..n |-> [conf |-> conf.name, year |-> lo + i - 1]]

\* for conf in CONFERENCES for year in year_range if year >= conf.first_year
TargetsOf(yrs) ==
    Flatten([c \in 1..Len(CONFERENCES) |-> YearsOf(CONFERENCES[c], yrs[1], yrs[2])])

T == 1..Len(targets)

---------------------------------------------------------------------------
(* CSV persistence: pd.read_csv / DataFrame.to_csv *)

Row(conf, year, title, author, affiliation) ==
    [Conference |-> conf, Year |-> year, Title |-> title, Author |-> author,
     Affiliation |-> affiliation]

\* to_csv writes a missing value as the empty field
ToCsvField(v) == IF v = NaN THEN "" ELSE v

\* read_csv reads the empty field and the default NA spellings as missing
ReadCsvField(v) == IF v \in {"", "n/a"} THEN NaN ELSE v

to_csv(frame) ==
    File([i \in 1..Len(frame) |-> [frame[i] EXCEPT !.Affiliation = ToCsvField(@)]])

read_csv(file) ==
    IF ~file.exists THEN <<>>
    ELSE [i \in 1..Len(file.rows) |-> [file.rows[i] EXCEPT !.Affiliation = ReadCsvField(@)]]

---------------------------------------------------------------------------
(* drop_duplicates(subset=[Conference, Year, Title, Author], keep="first") *)

Key(r) == <<r.Conference, r.Year, r.Title, r.Author>>

RECURSIVE DropSeen(_, _)
DropSeen(s, seen) ==
    IF s = <<>> THEN <<>>
    ELSE IF Key(Head(s)) \in seen THEN DropSeen(Tail(s), seen)
    ELSE <<Head(s)>> \o DropSeen(Tail(s), seen \cup {Key(Head(s))})

\* keep="last": a row is dropped when a later row has its key
RECURSIVE drop_duplicates_keep_last(_)
drop_duplicates_keep_last(s) ==
    IF s = <<>> THEN <<>>
    ELSE IF \E i \in 2..Len(s) : Key(s[i]) = Key(Head(s))
         THEN drop_duplicates_keep_last(Tail(s))
         ELSE <<Head(s)>> \o drop_duplicates_keep_last(Tail(s))

\* rows deleted from the list while a loop walks it: the row after a deleted
\* one moves into its place and is passed over
drop_duplicates_skipping(s) ==
    LET walk[i \in 0..Len(s)] ==
            IF i = 0 THEN [out |-> <<>>, seen |-> {}, skip |-> FALSE]
            ELSE LET w == walk[i - 1]
                 IN  IF w.skip THEN [w EXCEPT !.out = Append(@, s[i]), !.skip = FALSE]
                     ELSE IF Key(s[i]) \in w.seen THEN [w EXCEPT !.skip = TRUE]
                     ELSE [w EXCEPT !.out = Append(@, s[i]),
                                    !.seen = @ \cup {Key(s[i])}]
    IN  walk[Len(s)].out

drop_duplicates(s) == DropSeen(s, {})

---------------------------------------------------------------------------
(* Fetch calls: retry_on_server_disconnect(5)(load_doc_from_url) *)

\* A call is one task awaiting load_doc_from_url:
\*   st    "wait" (suspended in OPEN_REQUESTS.acquire), "flight" (holds a permit,
\*         request issued), "ok" (returned), "raised", "cancelled"
\*   tries attempts started so far (the wrapper's i + 1); the wrapper's frame,
\*         and i with it, is gone once the call has returned
\*   err   what ended the last attempt that failed
\*   res   the parser's return value
Call(st, tries, err, res) == [st |-> st, tries |-> tries, err |-> err, res |-> res]

Pending(c) == c.st \in {"wait", "flight"}

\* f ran to its return statement: session.get gave a response, with a 2xx
\* status ("ok") or with a 4xx/5xx status ("http_error"); lines 48-52 do not
\* look at response.status
Returned(outcome) == outcome \in {"ok", "http_error"}

\* The wrapper with the last attempt tested as i == n_tries: the loop runs out
\* and the wrapper returns None
WrapperStepNeverRaises(i, outcome) ==
    IF Returned(outcome) THEN "return"
    ELSE IF outcome = "transient"
         THEN IF i = n_tries THEN "raise"
              ELSE IF i + 1 < n_tries THEN "retry" ELSE "return_none"
         ELSE "raise"

\* What the wrapper does after attempt number i (0-based) ended with `outcome`
WrapperStep(i, outcome) ==
    IF Returned(outcome) THEN "return"
    ELSE IF outcome = "transient"
         THEN IF i = n_tries - 1 THEN "raise"
              ELSE IF i + 1 < n_tries THEN "retry" ELSE "return_none"
         ELSE "raise"

\* The permit released by hand after the parse, not by async with
ReleaseOnSuccess(outcome) == IF Returned(outcome) THEN 1 ELSE 0

\* async with OPEN_REQUESTS releases on every way out of the block
ReleaseOnExit(outcome) == 1


\* A gate that lets a task through only when two permits are free
CanAcquireSecond(p) == p > 1

\* A gate that lets a task through when no permit is left
CanAcquireOffByOne(p) == p >= 0

\* asyncio.Semaphore.acquire returns at once when a permit is free
CanAcquire(p) == p > 0

\* The call after one attempt ended: `parsed` is what the caller's parser makes
\* of the document, `bad` that the parser raises instead (no .maincard on the
\* page: doc.select(".maincard")[0] is an IndexError);
\* `grab` says whether a retry gets its permit without suspending
AfterAttempt(c, outcome, bad, parsed, grab) ==
    LET step == WrapperStep(c.tries - 1, outcome)
    IN  CASE step = "return" ->
                IF bad
                THEN Call("raised", c.tries,
                          IF outcome = "ok" THEN "parse" ELSE "parse_error_page", None)
                ELSE Call("ok", 0, IF outcome = "ok" THEN "none" ELSE outcome, parsed)
          [] step = "raise" -> Call("raised", c.tries, outcome, None)
          [] step = "retry" ->
                Call(IF grab THEN "flight" ELSE "wait", c.tries + 1, outcome, None)
          [] OTHER -> Call("raised", c.tries, "none_doc", None)

\* n tasks of which only the first is started
LaunchFirstOnly(n, free, grab) ==
    [i \in 1..n |-> Call(IF i > 1 THEN "new"
                         ELSE IF grab /\ i <= free THEN "flight" ELSE "wait",
                         1, "none", None)]

\* n tasks started in order: each counts itself on the progress bar, then takes
\* a permit if it may, else suspends in acquire
LaunchCalls(n, free, grab) ==
    [i \in 1..n |-> Call(IF grab /\ i <= free THEN "flight" ELSE "wait",
                         1, "none", None)]

Taken(calls) == Cardinality({i \in 1..Len(calls) : calls[i].st = "flight"})

InFlight(t) ==
    (IF index_call[t].st = "flight" THEN 1 ELSE 0)
    + Taken(paper_calls[t]) + Taken(author_calls[t])

RECURSIVE InFlightUpTo(_)
InFlightUpTo(n) == IF n = 0 THEN 0 ELSE InFlight(n) + InFlightUpTo(n - 1)

InFlightCount == InFlightUpTo(Len(targets))

AnyWaiting ==
    \E t \in T :
        \/ index_call[t].st = "wait"
        \/ \E k \in 1..Len(paper_calls[t]) : paper_calls[t][k].st = "wait"
        \/ \E k \in 1..Len(author_calls[t]) : author_calls[t][k].st = "wait"

\* With tasks already queued on the semaphore, Python >= 3.11 queues a new
\* acquirer behind them even when a permit is free; older versions hand it the
\* permit. Both are outcomes of the code.
GrabChoices == IF AnyWaiting THEN {TRUE, FALSE} ELSE {TRUE}

AllOk(calls) == \A i \in 1..Len(calls) : calls[i].st = "ok"

Outcomes == {"ok", "http_error", "transient", "fatal"}

\* The environment produces a bounded number of transient errors in a run
MayEnd(outcome) == outcome = "transient" => faults > 0

PbarAfter(outcome, c2, launched) ==
    [total |-> pbar.total + (IF Pending(c2) THEN 1 ELSE 0) + launched,
     n     |-> pbar.n + (IF Returned(outcome) THEN 1 ELSE 0)]

PermitsAfter(outcome, c2, calls) ==
    permits + ReleaseOnExit(outcome)
      - (IF c2.st = "flight" THEN 1 ELSE 0) - Taken(calls)

---------------------------------------------------------------------------
(* Conference.scrape *)

\* the ids referenced by the parsed papers
ReferencedIds(paper_data) ==
    UNION { { paper_data[i].authors[j].id : j \in 1..Len(paper_data[i].authors) } :
            i \in 1..Len(paper_data) }

Orderings(S) ==
    { s \in [1..Cardinality(S) -> S] :
        \A i, j \in 1..Cardinality(S) : i # j => s[i] # s[j] }

\* the list comprehension without set(): one id per author button
AuthorIdListsNoSet(paper_data) ==
    { Flatten([p \in 1..Len(paper_data) |->
          [a \in 1..Len(paper_data[p].authors) |-> paper_data[p].authors[a].id]]) }

\* list(set([id for _, authors in paper_data for name, id in authors])):
\* the order of a set of strings is not fixed
AuthorIdLists(paper_data) == Orderings(ReferencedIds(paper_data))

\* affiliations = dict(author_data); affiliations.get(name, "n/a")
AffiliationOf(author_data, name) ==
    LET at == {i \in 1..Len(author_data) : author_data[i].name = name}
    IN  IF at = {} THEN NOT_AVAILABLE
        ELSE author_data[CHOOSE i \in at : \A j \in at : j <= i].affiliation

\* rows built from the author pages: every fetched author on every paper
JoinOnAuthorPages(target, paper_data, author_data) ==
    Flatten([p \in 1..Len(paper_data) |->
        [k \in 1..Len(author_data) |->
            Row(target.conf, target.year, paper_data[p].title,
                author_data[k].name, author_data[k].affiliation)]])

\* papers, unnormalized and papers_df of one target
Join(target, paper_data, author_data) ==
    Flatten([p \in 1..Len(paper_data) |->
        [a \in 1..Len(paper_data[p].authors) |->
            Row(target.conf, target.year, paper_data[p].title,
                paper_data[p].authors[a].name,
                AffiliationOf(author_data, paper_data[p].authors[a].name))]])

ResultsOf(calls) == [i \in 1..Len(calls) |-> calls[i].res]

\* what load_paper returns for a page with the given author buttons
Paper(title, authors) == [title |-> title, authors |-> authors]

\* How an attempt ends: an exception of a retried class, any other exception,
\* a page the parser cannot read, the body of a 4xx/5xx response, or a page
\* with its parsed content
Failed(kind) == [tag |-> kind, val |-> None]
Page(content) == [tag |-> "page", val |-> content]
Errors == {Failed("transient"), Failed("fatal")}
BadPage == Failed("bad page")
ErrorPage == Failed("http_error")

OutcomeOf(reply) ==
    IF reply \in Errors \cup {ErrorPage} THEN reply.tag ELSE "ok"

\* an error page has no .maincard element: doc.select(".maincard")[0] raises,
\* doc.select(".maincard.poster") is empty
Unparsable(reply) == reply \in {BadPage, ErrorPage}

\* schedule pages of a site with at most MaxPapers papers in the years asked for
Schedules(n) ==
    { s \in [1..n -> 0..MaxPapers] : SumSeq(s) <= MaxPapers }

\* a small site: a paper lists at most one author, all authors work at one place
SmallSite ==
    [authorLists |-> SeqsUpTo([name : {"Ann"}, id : AuthorIdSet], 1),
     authorPages |-> [name : Names, affiliation : {"MIT"}]]

---------------------------------------------------------------------------
(* get_contacts: strings, search results and pages *)

\* A URL, an address or a name is the sequence of its pieces, so that Python's
\* `x in s` on strings is containment of a run of pieces.
Contains(s, pat) ==
    \E k \in 0..(Len(s) - Len(pat)) : SubSeq(s, k + 1, k + Len(pat)) = pat

\* str.lower() piece by piece
Lower(piece) ==
    CASE piece = "J.Smith" -> "j.smith"
      [] piece = "MIT.edu" -> "mit.edu"
      [] piece = "Smith"   -> "smith"
      [] piece = "Jane"    -> "jane"
      [] piece = "Ann"     -> "ann"
      [] piece = "Lee"     -> "lee"
      [] piece = "Name"    -> "name"
      [] piece = "Example" -> "example"
      [] piece = " [AT] "  -> " [at] "
      [] OTHER -> piece

LowerAll(s) == [k \in 1..Len(s) |-> Lower(s[k])]

\* the markers of lines 248-251 and 330-333
NA == <<NOT_AVAILABLE>>
ERROR == <<"Error">>

LinkedInProfile == <<"linkedin.com", "/in", "/jsmith">>
ScholarProfile == <<"scholar.google.com", "/citations?user=", "abc">>
Dblp == <<"dblp.org", "/pid/1">>
Site1 == <<"mit.edu", "/~smith">>
Site2 == <<"smith.me">>
\* a page of another host that names an excluded host in its query string
RefUrl == <<"blog.org", "/?via=", "twitter.com">>

\* line 266, line 259
IsLinkedInProfile(r) == Contains(r, <<"linkedin.com", "/in">>)
IsScholarProfile(r) == Contains(r, <<"scholar.google.com", "/citations?user=">>)

\* line 274
ExcludedDomains ==
    { <<"linkedin.com">>, <<"scholar.google.com">>, <<"dblp.org">>, <<"twitter.com">> }

Excluded(url) == \E domain \in ExcludedDomains : Contains(url, domain)

\* the first element of a list that passes a test, or the marker "n/a"
FirstLinkedIn(urls) ==
    LET at == {k \in 1..Len(urls) : IsLinkedInProfile(urls[k])}
    IN  IF at = {} THEN NA ELSE urls[CHOOSE k \in at : \A m \in at : k <= m]

FirstScholar(urls) ==
    LET at == {k \in 1..Len(urls) : IsScholarProfile(urls[k])}
    IN  IF at = {} THEN NA ELSE urls[CHOOSE k \in at : \A m \in at : k <= m]

\* href values of <a href="mailto:..."> elements
Href1 == <<"mailto:", "J.Smith", "@", "MIT.edu", "?subject=Hi">>
Href2 == <<"mailto:", "office", "@", "example.com">>
Hrefs == {Href1, Href2}

IsQuery(piece) == piece \in {"?subject=Hi"}

\* mailto_links[0]['href'][7:].split('?')[0]
MailtoAddress(href) ==
    LET rest == Tail(href)
        at   == {k \in 1..Len(rest) : IsQuery(rest[k])}
    IN  IF at = {} THEN rest
        ELSE SubSeq(rest, 1, (CHOOSE k \in at : \A m \in at : k <= m) - 1)

\* addresses that lines 288-298 find in a page's lower-cased text
Addr1 == <<"info", "@", "example.com">>
Addr2 == <<"smith", "@", "example.com">>
Addrs == {Addr1, Addr2}

\* author.split(' ')[-1].lower()
LastName(author) == Lower(author[Len(author)])

\* the preference for the surname, applied to a list with every element
\* but the first dropped
PickFirstFound(found_emails, author) == found_emails[1]

\* lines 300-306, for a non-empty found_emails
PickEmail(found_emails, author) ==
    LET preferred_emails ==
            SelectSeq(found_emails, LAMBDA e : Contains(e, <<LastName(author)>>))
    IN  IF preferred_emails # <<>> THEN preferred_emails[1] ELSE found_emails[1]

\* what session.get gives: an exception, or a response with a status and a body
PageOf(status, mailto_links, found_emails) ==
    [raised |-> FALSE, status |-> status, mailto_links |-> mailto_links,
     found_emails |-> found_emails]
GetFailed == [raised |-> TRUE, status |-> 0, mailto_links |-> <<>>, found_emails |-> <<>>]
NoResponse == PageOf(0, <<>>, <<>>)

\* str.replace on a text of pieces
Replace(text, old, new) == [k \in 1..Len(text) |-> IF text[k] = old THEN new ELSE text[k]]

SpanOpen == "<span class=\"email\">"
SpanClose == "</span>"

\* re.sub(r'\s*<span class="email">([^<]+)<\/span>\s*', r'\1', text): the tags
\* go, and the white space before the opening and after the closing tag
RECURSIVE UnwrapSpansFrom(_, _)
UnwrapSpansFrom(text, k) ==
    LET dropped == \/ text[k] \in {SpanOpen, SpanClose}
                   \/ text[k] = " " /\ k < Len(text) /\ text[k + 1] = SpanOpen
                   \/ text[k] = " " /\ k > 1 /\ text[k - 1] = SpanClose
    IN  IF k > Len(text) THEN <<>>
        ELSE (IF dropped THEN <<>> ELSE <<text[k]>>) \o UnwrapSpansFrom(text, k + 1)

UnwrapSpans(text) == UnwrapSpansFrom(text, 1)

\* the normalising pass with the " [dot] " idiom left as it is
deobfuscate_at_only(text) == Replace(LowerAll(text), " [at] ", "@")

\* lines 290-295
deobfuscate(text) ==
    LET lowered  == LowerAll(text)
        brackets == Replace(Replace(lowered, " [at] ", "@"), " [dot] ", ".")
        parens   == Replace(Replace(brackets, "(at)", "@"), "(dot)", ".")
        words    == Replace(Replace(parens, " at ", "@"), " dot ", ".")
        entities == Replace(Replace(words, "&#64;", "@"), "&#46;", ".")
    IN  UnwrapSpans(entities)

\* pieces of [a-zA-Z]{2,}, and pieces of the classes [a-zA-Z0-9._%+-] and
\* [a-zA-Z0-9.-], which agree on the modelled pieces
Letters2 == {"name", "example", "com", "mail", "me", "info", "smith", "org"}
IsAddressPiece(piece) == piece \in Letters2 \cup {"c", "."}

\* the last piece of the match of email_pattern that starts at piece i, or 0
MatchEnd(text, i) ==
    LET j == CHOOSE j \in i..(Len(text) + 1) :
                 /\ j = Len(text) + 1 \/ ~IsAddressPiece(text[j])
                 /\ \A m \in i..(j - 1) : IsAddressPiece(text[m])
    IN  IF j = i \/ j > Len(text) \/ text[j] # "@" THEN 0
        ELSE LET d == CHOOSE d \in j..Len(text) :
                          /\ d = Len(text) \/ ~IsAddressPiece(text[d + 1])
                          /\ \A m \in (j + 1)..d : IsAddressPiece(text[m])
                 ends == {e \in (j + 3)..d : text[e - 1] = "." /\ text[e] \in Letters2}
             IN  IF ends = {} THEN 0 ELSE CHOOSE e \in ends : \A m \in ends : m <= e

RECURSIVE FindFrom(_, _)
FindFrom(text, i) ==
    IF i > Len(text) THEN <<>>
    ELSE IF MatchEnd(text, i) = 0 THEN FindFrom(text, i + 1)
    ELSE <<SubSeq(text, i, MatchEnd(text, i))>> \o FindFrom(text, MatchEnd(text, i) + 1)

\* re.findall(email_pattern, text): the matches from left to right
findall(text) == FindFrom(text, 1)

\* a 200 response without mailto links whose body is the given text
TextPage(text) == PageOf(200, <<>>, findall(deobfuscate(text)))

\* bodies that hold name@example.com, written with " [at] " and " [dot] ", and
\* no other address
IdiomBodies ==
    { <<"name", " [at] ", "example", " [dot] ", "com">>,
      <<"<p>", "Name", " [AT] ", "Example", " [dot] ", "com", "</p>">>,
      <<"mail", " ", "me", " at ", "name", " [at] ", "example", " [dot] ", "com">> }

\* bodies with other spellings, with two addresses, and with none
Bodies ==
    IdiomBodies \cup
    { <<"name", "(at)", "example", "(dot)", "com">>,
      <<"name", "&#64;", "example", "&#46;", "com">>,
      <<"name", " at ", "example", " dot ", "com">>,
      <<"<p>", " ", SpanOpen, "name", "@", "example", ".", "com", SpanClose, " ", "</p>">>,
      <<"info", "@", "example", ".", "org", " ", "name", " [at] ", "example", " [dot] ", "com">>,
      <<"info", "@", "example", ".", "org", " ", "smith", " [at] ", "example", " [dot] ", "com">>,
      <<"name", " [at] ", "example", " [dot] ", "c">>,
      <<"mail", " ", "me">> }

\* what search gives: an exception, or the URLs
SearchFailed == [ok |-> FALSE, urls |-> <<>>]
Results(urls) == [ok |-> TRUE, urls |-> urls]

Pair(author, affiliation) == [author |-> author, affiliation |-> affiliation]
JaneSmith == Pair(<<"Jane", "Smith">>, "MIT")
AnnLee == Pair(<<"Ann", "Lee">>, NaN)

\* the dict of lines 316-323
Contact(pair, website, linkedin, scholar, mail) ==
    [Author |-> pair.author, Affiliation |-> pair.affiliation, Website |-> website,
     LinkedIn |-> linkedin, GoogleScholar |-> scholar, Email |-> LowerAll(mail)]

\* an error record that marks the website only
ErrorContactMixed(pair) ==
    [Author |-> pair.author, Affiliation |-> pair.affiliation, Website |-> ERROR,
     LinkedIn |-> NA, GoogleScholar |-> NA, Email |-> NA]

\* the dict of lines 327-334
ErrorContact(pair) ==
    [Author |-> pair.author, Affiliation |-> pair.affiliation, Website |-> ERROR,
     LinkedIn |-> ERROR, GoogleScholar |-> ERROR, Email |-> ERROR]

\* get_contacts is not running
NoContacts ==
    /\ authors_with_affiliations = <<>>
    /\ web = "none"
    /\ cpc = "idle"
    /\ pair_i = 0
    /\ search_results = <<>>
    /\ personal_site = NA
    /\ linkedin_url = NA
    /\ scholar_url = NA
    /\ email = NA
    /\ url_index = 0
    /\ response = NoResponse
    /\ contacts_data = <<>>
    /\ trace = <<>>

\* a command line of analyze_mode, parsed: the command word, the quoted name of
\* /findcontact, the count and the quoted institutions of /getcontacts
Command(cmd, term, k, institutions) ==
    [cmd |-> cmd, term |-> term, k |-> k, institutions |-> institutions]

NoCommand == Command("", <<>>, 0, <<>>)

\* analyze_mode is not running
NotAnalyzing ==
    /\ df = <<>>
    /\ command = NoCommand
    /\ apc = "idle"

---------------------------------------------------------------------------
(* The state when scrape_mode reaches its gather (lines 128-158) *)

Setup(yearArgs, files, sites, budget) ==
    /\ NoContacts
    /\ NotAnalyzing
    /\ years \in yearArgs
    /\ parallel \in 1..MaxParallel
    /\ csv \in files
    /\ targets = TargetsOf(years)
    /\ schedule \in Schedules(Len(targets))
    /\ site \in sites
    /\ faults = budget
    /\ phase = "setup"
    /\ existing_df = read_csv(csv)
    /\ permits = parallel
    /\ pbar = [total |-> 0, n |-> 0]
    /\ tpc = [t \in T |-> "new"]
    /\ index_call = [t \in T |-> Call("new", 0, "none", None)]
    /\ paper_calls = [t \in T |-> <<>>]
    /\ author_ids = [t \in T |-> <<>>]
    /\ author_calls = [t \in T |-> <<>>]
    /\ results = [t \in T |-> <<>>]
    /\ combined_df = <<>>

Init == Setup(YearArgs, {NoFile}, {SmallSite}, MaxFaults)

\* scrape_mode lines 159-165: one Conference.scrape task per target; each runs
\* to its first suspension, inside load_doc_from_url for the schedule page
Gather ==
    /\ UNCHANGED <<contactVars, analyzeVars>>
    /\ phase = "setup"
    /\ phase' = "running"
    /\ index_call' = LaunchCalls(Len(targets), permits, TRUE)
    /\ permits' = permits - Taken(index_call')
    /\ pbar' = [pbar EXCEPT !.total = @ + Len(targets)]
    /\ tpc' = [t \in T |-> "index"]
    /\ UNCHANGED <<years, parallel, csv, schedule, site, faults, targets, existing_df,
                   paper_calls, author_ids, author_calls, results, combined_df>>

\* a task suspended in OPEN_REQUESTS.acquire gets a permit and issues its request
AcquireIndex(t) ==
    /\ UNCHANGED <<contactVars, analyzeVars>>
    /\ phase = "running"
    /\ index_call[t].st = "wait"
    /\ CanAcquire(permits)
    /\ permits' = permits - 1
    /\ index_call' = [index_call EXCEPT ![t].st = "flight"]
    /\ UNCHANGED <<years, parallel, csv, schedule, site, faults, phase, targets,
                   existing_df, pbar, tpc, paper_calls, author_ids, author_calls,
                   results, combined_df>>

AcquirePaper(t, k) ==
    /\ UNCHANGED <<contactVars, analyzeVars>>
    /\ phase = "running"
    /\ paper_calls[t][k].st = "wait"
    /\ CanAcquire(permits)
    /\ permits' = permits - 1
    /\ paper_calls' = [paper_calls EXCEPT ![t][k].st = "flight"]
    /\ UNCHANGED <<years, parallel, csv, schedule, site, faults, phase, targets,
                   existing_df, pbar, tpc, index_call, author_ids, author_calls,
                   results, combined_df>>

AcquireAuthor(t, k) ==
    /\ UNCHANGED <<contactVars, analyzeVars>>
    /\ phase = "running"
    /\ author_calls[t][k].st = "wait"
    /\ CanAcquire(permits)
    /\ permits' = permits - 1
    /\ author_calls' = [author_calls EXCEPT ![t][k].st = "flight"]
    /\ UNCHANGED <<years, parallel, csv, schedule, site, faults, phase, targets,
                   existing_df, pbar, tpc, index_call, paper_calls, author_ids,
                   results, combined_df>>

\* what every attempt's end does to the shared state; an exception out of a
\* task leaves its gather, then Conference.scrape, then scrape_mode's gather
EndAttempt(t, outcome, c2, launched) ==
    /\ UNCHANGED <<contactVars, analyzeVars>>
    /\ permits' = PermitsAfter(outcome, c2, launched)
    /\ pbar' = PbarAfter(outcome, c2, Len(launched))
    /\ faults' = faults - (IF outcome = "transient" THEN 1 ELSE 0)
    /\ phase' = IF c2.st = "raised" THEN "aborted" ELSE phase
    /\ UNCHANGED <<years, parallel, csv, schedule, site, targets, existing_df, combined_df>>

\* the schedule page's attempt ends (load_paper_ids, scrape lines 93-96)
RespondIndex(t, reply, grab) ==
    /\ phase = "running"
    /\ index_call[t].st = "flight"
    /\ MayEnd(OutcomeOf(reply))
    /\ LET ids      == IF reply = ErrorPage THEN <<>> ELSE [i \in 1..schedule[t] |-> i]
           c2       == AfterAttempt(index_call[t], OutcomeOf(reply), FALSE, ids, grab)
           free     == permits + ReleaseOnExit(OutcomeOf(reply))
           launched == IF c2.st = "ok" THEN LaunchCalls(Len(ids), free, grab)
                       ELSE <<>>
       IN  /\ index_call' = [index_call EXCEPT ![t] = c2]
           /\ paper_calls' = [paper_calls EXCEPT ![t] = launched]
           /\ tpc' = [tpc EXCEPT ![t] =
                        IF c2.st = "raised" THEN "failed"
                        ELSE IF c2.st = "ok"
                             THEN (IF ids = <<>> THEN "done" ELSE "papers")
                             ELSE @]
           /\ EndAttempt(t, OutcomeOf(reply), c2, launched)
    /\ UNCHANGED <<author_ids, author_calls, results>>

\* a paper page's attempt ends (load_paper, scrape lines 96-103)
RespondPaper(t, k, reply, grab) ==
    /\ phase = "running"
    /\ paper_calls[t][k].st = "flight"
    /\ MayEnd(OutcomeOf(reply))
    /\ LET c2     == AfterAttempt(paper_calls[t][k], OutcomeOf(reply), Unparsable(reply),
                                  Paper(Titles[k], reply.val), grab)
           calls2 == [paper_calls[t] EXCEPT ![k] = c2]
           free   == permits + ReleaseOnExit(OutcomeOf(reply))
       IN  /\ paper_calls' = [paper_calls EXCEPT ![t] = calls2]
           /\ \E aids \in (IF AllOk(calls2) THEN AuthorIdLists(ResultsOf(calls2))
                           ELSE {<<>>}) :
                LET launched == LaunchCalls(Len(aids), free, grab)
                IN  /\ author_ids' = [author_ids EXCEPT ![t] = aids]
                    /\ author_calls' = [author_calls EXCEPT ![t] = launched]
                    /\ EndAttempt(t, OutcomeOf(reply), c2, launched)
           /\ tpc' = [tpc EXCEPT ![t] =
                        IF c2.st = "raised" THEN "failed"
                        ELSE IF AllOk(calls2)
                             THEN (IF ReferencedIds(ResultsOf(calls2)) = {}
                                   THEN "done" ELSE "authors")
                             ELSE @]
           /\ results' = [results EXCEPT ![t] =
                            IF AllOk(calls2) /\ ReferencedIds(ResultsOf(calls2)) = {}
                            THEN Join(targets[t], ResultsOf(calls2), <<>>)
                            ELSE @]
    /\ UNCHANGED index_call

\* an author page's attempt ends (load_author, scrape lines 103-120)
RespondAuthor(t, k, reply, grab) ==
    /\ phase = "running"
    /\ author_calls[t][k].st = "flight"
    /\ MayEnd(OutcomeOf(reply))
    /\ LET c2     == AfterAttempt(author_calls[t][k], OutcomeOf(reply), Unparsable(reply),
                                  reply.val, grab)
           calls2 == [author_calls[t] EXCEPT ![k] = c2]
       IN  /\ author_calls' = [author_calls EXCEPT ![t] = calls2]
           /\ tpc' = [tpc EXCEPT ![t] =
                        IF c2.st = "raised" THEN "failed"
                        ELSE IF AllOk(calls2) THEN "done" ELSE @]
           /\ results' = [results EXCEPT ![t] =
                            IF AllOk(calls2)
                            THEN Join(targets[t], ResultsOf(paper_calls[t]),
                                      ResultsOf(calls2))
                            ELSE @]
           /\ EndAttempt(t, OutcomeOf(reply), c2, <<>>)
    /\ UNCHANGED <<index_call, paper_calls, author_ids>>

Cancel(c) == IF Pending(c) THEN [c EXCEPT !.st = "cancelled"] ELSE c

\* the exception leaves scrape_mode and main; asyncio.run cancels the tasks
\* still pending, and each leaves its async with block on the way out
Shutdown ==
    /\ UNCHANGED <<contactVars, analyzeVars>>
    /\ phase = "aborted"
    /\ phase' = "exited"
    /\ permits' = permits + InFlightCount * ReleaseOnExit("cancelled")
    /\ index_call' = [t \in T |-> Cancel(index_call[t])]
    /\ paper_calls' = [t \in T |->
                        [k \in 1..Len(paper_calls[t]) |-> Cancel(paper_calls[t][k])]]
    /\ author_calls' = [t \in T |->
                        [k \in 1..Len(author_calls[t]) |-> Cancel(author_calls[t][k])]]
    /\ UNCHANGED <<years, parallel, csv, schedule, site, faults, targets, existing_df,
                   pbar, tpc, author_ids, results, combined_df>>

\* pd.concat(results) then pd.concat([existing_df, new_df])
Combined(existing, res) == existing \o Flatten(res)

\* lines 167-179 without the test of line 167
MergeWithoutTest ==
    /\ UNCHANGED <<contactVars, analyzeVars>>
    /\ phase = "running"
    /\ \A t \in T : tpc[t] = "done"
    /\ combined_df' = drop_duplicates(Combined(existing_df, results))
    /\ csv' = to_csv(combined_df')
    /\ phase' = "saved"
    /\ UNCHANGED <<years, parallel, schedule, site, faults, targets, existing_df,
                   permits, pbar, tpc, index_call, paper_calls, author_ids,
                   author_calls, results>>

\* scrape_mode lines 167-179, once gather has every target's DataFrame
Merge ==
    /\ UNCHANGED <<contactVars, analyzeVars>>
    /\ phase = "running"
    /\ \A t \in T : tpc[t] = "done"
    /\ IF Len(targets) > 0
       THEN /\ combined_df' = drop_duplicates(Combined(existing_df, results))
            /\ csv' = to_csv(combined_df')
            /\ phase' = "saved"
       ELSE /\ phase' = "exited"
            /\ UNCHANGED <<csv, combined_df>>
    /\ UNCHANGED <<years, parallel, schedule, site, faults, targets, existing_df,
                   permits, pbar, tpc, index_call, paper_calls, author_ids,
                   author_calls, results>>

IndexReplies == Errors \cup {ErrorPage, Page(None)}
PaperReplies == Errors \cup {BadPage, ErrorPage} \cup {Page(d) : d \in site.authorLists}
AuthorReplies == Errors \cup {BadPage, ErrorPage} \cup {Page(d) : d \in site.authorPages}

Next ==
    \/ Gather
    \/ \E t \in T : AcquireIndex(t)
    \/ \E t \in T : \E k \in 1..Len(paper_calls[t]) : AcquirePaper(t, k)
    \/ \E t \in T : \E k \in 1..Len(author_calls[t]) : AcquireAuthor(t, k)
    \/ \E t \in T : \E reply \in IndexReplies : \E grab \in GrabChoices :
          RespondIndex(t, reply, grab)
    \/ \E t \in T : \E k \in 1..Len(paper_calls[t]) :
          \E reply \in PaperReplies : \E grab \in GrabChoices :
             RespondPaper(t, k, reply, grab)
    \/ \E t \in T : \E k \in 1..Len(author_calls[t]) :
          \E reply \in AuthorReplies : \E grab \in GrabChoices :
             RespondAuthor(t, k, reply, grab)
    \/ Shutdown
    \/ Merge

Spec == Init /\ [][Next]_vars

\* a site on which every paper lists the one author
OneAuthorSite ==
    [authorLists |-> {<<[name |-> "Ann", id |-> "7"]>>},
     authorPages |-> {[name |-> "Ann", affiliation |-> "MIT"]}]

\* a batch of two targets for any --parallel from 0 on; a semaphore of 0
\* permits is one asyncio constructs
InitLive ==
    /\ NoContacts
    /\ NotAnalyzing
    /\ years = <<2017, 2017>>
    /\ parallel \in 0..MaxParallel
    /\ csv = NoFile
    /\ targets = TargetsOf(years)
    /\ schedule \in Schedules(Len(targets))
    /\ site = OneAuthorSite
    /\ faults = MaxFaults
    /\ phase = "setup"
    /\ existing_df = read_csv(csv)
    /\ permits = parallel
    /\ pbar = [total |-> 0, n |-> 0]
    /\ tpc = [t \in T |-> "new"]
    /\ index_call = [t \in T |-> Call("new", 0, "none", None)]
    /\ paper_calls = [t \in T |-> <<>>]
    /\ author_ids = [t \in T |-> <<>>]
    /\ author_calls = [t \in T |-> <<>>]
    /\ results = [t \in T |-> <<>>]
    /\ combined_df = <<>>

\* the event loop runs a task that can run, an attempt that was issued ends, and
\* a permit that is free goes to a task that waits for one
SpecLive == InitLive /\ [][Next]_vars /\ WF_vars(Next)

---------------------------------------------------------------------------
(* One target, and a network that can fail a call on every one of its attempts *)

OneTarget == { <<2005, 2006>> }

InitRetry == Setup(OneTarget, {NoFile}, {SmallSite}, n_tries)

\* with one target the schedule-page task never has to queue for a permit
NextRetry ==
    \/ Gather
    \/ \E t \in T : \E k \in 1..Len(paper_calls[t]) : AcquirePaper(t, k)
    \/ \E t \in T : \E k \in 1..Len(author_calls[t]) : AcquireAuthor(t, k)
    \/ \E t \in T : \E reply \in IndexReplies : \E grab \in GrabChoices :
          RespondIndex(t, reply, grab)
    \/ \E t \in T : \E k \in 1..Len(paper_calls[t]) :
          \E reply \in PaperReplies : \E grab \in GrabChoices :
             RespondPaper(t, k, reply, grab)
    \/ \E t \in T : \E k \in 1..Len(author_calls[t]) :
          \E reply \in AuthorReplies : \E grab \in GrabChoices :
             RespondAuthor(t, k, reply, grab)
    \/ Shutdown
    \/ Merge

SpecRetry == InitRetry /\ [][NextRetry]_vars

---------------------------------------------------------------------------
(* Conference.scrape from the last paper page on: one target, any author buttons *)

\* a site whose papers carry any author buttons
FullSite ==
    [authorLists |-> SeqsUpTo(AuthorEntries, MaxEntries), authorPages |-> AuthorPages]

\* the paper_data of n papers with at most e author buttons in all
RECURSIVE PapersWith(_, _)
PapersWith(n, e) ==
    IF n = 0 THEN { <<>> }
    ELSE UNION { { Append(rest, Paper(Titles[n], authors)) :
                     rest \in PapersWith(n - 1, e - Len(authors)) } :
                 authors \in { a \in FullSite.authorLists : Len(a) <= e } }

\* the paper_data of a target with at most MaxPapers papers and MaxEntries
\* author buttons in all
PaperData == UNION { PapersWith(n, MaxEntries) : n \in 0..MaxPapers }

\* the state when all paper pages of the target but the last are parsed and the
\* attempt for the last, paper k, is in flight; the site serves the page of
\* paper k with its author buttons
InitJoin ==
    /\ NoContacts
    /\ NotAnalyzing
    /\ years \in OneTarget
    /\ parallel \in 1..MaxParallel
    /\ csv = NoFile
    /\ targets = TargetsOf(years)
    /\ faults = 0
    /\ phase = "running"
    /\ existing_df = read_csv(csv)
    /\ combined_df = <<>>
    /\ permits = parallel - 1
    /\ tpc = <<"papers">>
    /\ author_ids = <<<<>>>>
    /\ author_calls = <<<<>>>>
    /\ results = <<<<>>>>
    /\ \E pd \in PaperData : \E k \in {Len(pd)} \ {0} :
          /\ schedule = <<Len(pd)>>
          /\ site = [authorLists |-> {pd[k].authors}, authorPages |-> AuthorPages]
          /\ index_call = <<Call("ok", 0, "none", [i \in 1..Len(pd) |-> i])>>
          /\ paper_calls = <<[i \in 1..Len(pd) |->
                                IF i = k THEN Call("flight", 1, "none", None)
                                ELSE Call("ok", 0, "none", pd[i])]>>
          /\ pbar = [total |-> 1 + Len(pd), n |-> Len(pd)]

NextJoin ==
    \/ \E t \in T : \E k \in 1..Len(paper_calls[t]) :
          \E reply \in PaperReplies : \E grab \in GrabChoices :
             RespondPaper(t, k, reply, grab)
    \/ \E t \in T : \E k \in 1..Len(author_calls[t]) : AcquireAuthor(t, k)
    \/ \E t \in T : \E k \in 1..Len(author_calls[t]) :
          \E reply \in AuthorReplies : \E grab \in GrabChoices :
             RespondAuthor(t, k, reply, grab)
    \/ Shutdown
    \/ Merge

SpecJoin == InitJoin /\ [][NextJoin]_vars

---------------------------------------------------------------------------
(* scrape_mode from line 167 on: the rows of one target and of the file *)

MergeRows ==
    { Row("NeurIPS", 2006, t, "Ann", f) :
        t \in {Titles[1], Titles[2]}, f \in Affiliations \cup {NOT_AVAILABLE} }

\* what an earlier run wrote
PriorFiles ==
    {NoFile} \cup { to_csv(drop_duplicates(s)) : s \in SeqsUpTo(MergeRows, MaxRows) }

\* the state when the gather of line 165 has returned; the rows of the target's
\* DataFrame and of the output file are drawn, the fetches behind them left out
InitMerge ==
    /\ NoContacts
    /\ NotAnalyzing
    /\ years \in OneTarget
    /\ parallel = MaxParallel
    /\ csv \in PriorFiles
    /\ targets = TargetsOf(years)
    /\ schedule = <<0>>
    /\ site = SmallSite
    /\ faults = 0
    /\ phase = "running"
    /\ existing_df = read_csv(csv)
    /\ combined_df = <<>>
    /\ index_call = <<Call("ok", 0, "none", <<>>)>>
    /\ paper_calls = <<<<>>>>
    /\ author_ids = <<<<>>>>
    /\ author_calls = <<<<>>>>
    /\ permits = parallel
    /\ pbar = [total |-> 1, n |-> 1]
    /\ tpc = <<"done">>
    /\ results \in { <<new>> : new \in SeqsUpTo(MergeRows, MaxRows) }

SpecMerge == InitMerge /\ [][Merge]_vars

\* the batch with an output file of an earlier run or none, on a network
\* without connection faults
InitPersist ==
    Setup(YearArgs,
          {NoFile, to_csv(<<Row("NeurIPS", 2006, Titles[1], "Ann", "MIT")>>)},
          {SmallSite}, 0)

SpecPersist == InitPersist /\ [][Next]_vars

---------------------------------------------------------------------------
(* get_contacts (lines 231-337): an action is what the coroutine does between
   two awaits *)

\* scrape_mode is not running
NotScraping ==
    /\ years = <<0, 0>>
    /\ parallel = 1
    /\ csv = NoFile
    /\ schedule = <<>>
    /\ site = SmallSite
    /\ faults = 0
    /\ phase = "idle"
    /\ targets = <<>>
    /\ existing_df = <<>>
    /\ permits = 1
    /\ pbar = [total |-> 0, n |-> 0]
    /\ tpc = <<>>
    /\ index_call = <<>>
    /\ paper_calls = <<>>
    /\ author_ids = <<>>
    /\ author_calls = <<>>
    /\ results = <<>>
    /\ combined_df = <<>>

\* an entry of the trace: a call started, an exception caught, a record appended
Event(op, k, j) == [op |-> op, i |-> k, j |-> j]

\* the state when get_contacts reaches its for loop (lines 231-235)
SetupContacts(inputs, webs) ==
    /\ NotScraping
    /\ NotAnalyzing
    /\ authors_with_affiliations \in inputs
    /\ web \in webs
    /\ cpc = "loop"
    /\ pair_i = 0
    /\ search_results = <<>>
    /\ personal_site = NA
    /\ linkedin_url = NA
    /\ scholar_url = NA
    /\ email = NA
    /\ url_index = 0
    /\ response = NoResponse
    /\ contacts_data = <<>>
    /\ trace = <<>>

\* the delay is skipped before the second pair too
NeedsDelayOffByOne(k) == k > 1

\* line 236
NeedsDelay(k) == k > 0

\* the pair of the current iteration
CurrentPair == authors_with_affiliations[pair_i + 1]

\* lines 235-243: the loop takes the next pair, or get_contacts returns
NextPair ==
    /\ cpc = "loop"
    /\ IF pair_i = Len(authors_with_affiliations)
       THEN /\ cpc' = "returned"
            /\ trace' = trace
       ELSE IF NeedsDelay(pair_i)
       THEN /\ cpc' = "sleep"
            /\ trace' = Append(trace, Event("sleep", pair_i, 0))
       ELSE /\ cpc' = "search"
            /\ trace' = Append(trace, Event("search", pair_i, 0))
    /\ UNCHANGED <<vars_scrape, analyzeVars, authors_with_affiliations, web, pair_i, search_results,
                   personal_site, linkedin_url, scholar_url, email, url_index,
                   response, contacts_data>>

\* lines 237-245: asyncio.sleep(2) is over, the first search starts
Wake ==
    /\ cpc = "sleep"
    /\ cpc' = "search"
    /\ trace' = Append(trace, Event("search", pair_i, 0))
    /\ UNCHANGED <<vars_scrape, analyzeVars, authors_with_affiliations, web, pair_i, search_results,
                   personal_site, linkedin_url, scholar_url, email, url_index,
                   response, contacts_data>>

\* the URL loop without the test of line 271: every result is fetched
UrlLoopNoBreak(j, website, mail, linkedin, scholar, tr) ==
    IF j <= Len(search_results)
    THEN /\ url_index' = j
         /\ personal_site' = IF website = NA /\ ~Excluded(search_results[j])
                             THEN search_results[j] ELSE website
         /\ cpc' = "get"
         /\ trace' = Append(tr, Event("get", pair_i, j))
         /\ UNCHANGED <<contacts_data, pair_i>>
    ELSE /\ url_index' = url_index
         /\ personal_site' = website
         /\ contacts_data' = Append(contacts_data,
                                Contact(CurrentPair, website, linkedin, scholar, mail))
         /\ pair_i' = pair_i + 1
         /\ cpc' = "loop"
         /\ trace' = Append(tr, Event("append", pair_i, 0))

\* lines 270-323 from the top of iteration j of the URL loop, with the given
\* values of personal_site and email, up to the next session.get or, when the
\* loop is left, up to the append of line 316
UrlLoop(j, website, mail, linkedin, scholar, tr) ==
    IF j <= Len(search_results) /\ mail = NA
    THEN /\ url_index' = j
         /\ personal_site' = IF website = NA /\ ~Excluded(search_results[j])
                             THEN search_results[j] ELSE website
         /\ cpc' = "get"
         /\ trace' = Append(tr, Event("get", pair_i, j))
         /\ UNCHANGED <<contacts_data, pair_i>>
    ELSE /\ url_index' = IF j <= Len(search_results) THEN j ELSE url_index
         /\ personal_site' = website
         /\ contacts_data' = Append(contacts_data,
                                Contact(CurrentPair, website, linkedin, scholar, mail))
         /\ pair_i' = pair_i + 1
         /\ cpc' = "loop"
         /\ trace' = Append(tr, Event("append", pair_i, 0))

\* the except clause of line 325 with no append in it
DropOnError(data, pair) == data

\* lines 325-334
AppendError(data, pair) == Append(data, ErrorContact(pair))

\* lines 243-256 and 325-334: the "contact email" search ends
SearchReturns(reply) ==
    /\ cpc = "search"
    /\ IF reply.ok
       THEN /\ search_results' = reply.urls
            /\ personal_site' = NA
            /\ linkedin_url' = NA
            /\ scholar_url' = NA
            /\ email' = NA
            /\ cpc' = "scholar"
            /\ trace' = Append(trace, Event("scholar", pair_i, 0))
            /\ UNCHANGED <<contacts_data, pair_i>>
       ELSE /\ contacts_data' = AppendError(contacts_data, CurrentPair)
            /\ pair_i' = pair_i + 1
            /\ cpc' = "loop"
            /\ trace' = trace \o << Event("search_failed", pair_i, 0),
                                    Event("append", pair_i, 0) >>
            /\ UNCHANGED <<search_results, personal_site, linkedin_url, scholar_url,
                           email>>
    /\ UNCHANGED <<vars_scrape, analyzeVars, authors_with_affiliations, web, url_index, response>>

\* the except clause of line 262 marking the field instead of passing
ScholarUrlOrError(reply, current) ==
    IF reply.ok THEN FirstScholar(reply.urls) ELSE ERROR

\* lines 254-263: scholar_url after the second search
ScholarUrl(reply, current) ==
    IF reply.ok THEN FirstScholar(reply.urls) ELSE current

\* lines 255-278: the "google scholar" search ends
ScholarReturns(reply) ==
    /\ cpc = "scholar"
    /\ LET scholar  == ScholarUrl(reply, scholar_url)
           linkedin == FirstLinkedIn(search_results)
           tr       == IF reply.ok THEN trace
                       ELSE Append(trace, Event("scholar_failed", pair_i, 0))
       IN  /\ scholar_url' = scholar
           /\ linkedin_url' = linkedin
           /\ email' = email
           /\ UrlLoop(1, personal_site, email, linkedin, scholar, tr)
    /\ UNCHANGED <<vars_scrape, analyzeVars, authors_with_affiliations, web, search_results, response>>

\* the pattern match tried before the mailto links
EmailFromPatternFirst(reply, author, mail) ==
    IF reply.raised \/ reply.status # 200 THEN mail
    ELSE IF reply.found_emails # <<>> THEN PickEmail(reply.found_emails, author)
    ELSE IF reply.mailto_links # <<>> THEN MailtoAddress(reply.mailto_links[1])
    ELSE mail

\* the page read whatever its status
EmailFromAnyStatus(reply, author, mail) ==
    IF reply.raised THEN mail
    ELSE IF reply.mailto_links # <<>> THEN MailtoAddress(reply.mailto_links[1])
    ELSE IF reply.found_emails # <<>> THEN PickEmail(reply.found_emails, author)
    ELSE mail

\* lines 278-309: the email read from a response, or email as it was
EmailFrom(reply, author, mail) ==
    IF reply.raised \/ reply.status # 200 THEN mail
    ELSE IF reply.mailto_links # <<>> THEN MailtoAddress(reply.mailto_links[1])
    ELSE IF reply.found_emails # <<>> THEN PickEmail(reply.found_emails, author)
    ELSE mail

\* lines 278-323: session.get ends
GetReturns(reply) ==
    /\ cpc = "get"
    /\ response' = reply
    /\ LET mail == EmailFrom(reply, CurrentPair.author, email)
       IN  /\ email' = mail
           /\ UrlLoop(url_index + 1, personal_site, mail, linkedin_url, scholar_url, trace)
    /\ UNCHANGED <<vars_scrape, analyzeVars, authors_with_affiliations, web, search_results,
                   linkedin_url, scholar_url>>

\* a small web: one result at most, four kinds of page
SmallWeb ==
    [results         |-> SeqsUpTo({LinkedInProfile, Site1}, 1),
     scholar_results |-> {<<>>, <<ScholarProfile>>},
     pages           |-> {GetFailed, PageOf(404, <<Href2>>, <<Addr1>>),
                          PageOf(200, <<>>, <<>>), PageOf(200, <<>>, <<Addr2>>)}]

\* a web of any results and pages within the bounds
Urls == {LinkedInProfile, Dblp, Site1, Site2, RefUrl}

FullWeb ==
    [results         |-> SeqsUpTo(Urls, MaxResults),
     scholar_results |-> {<<ScholarProfile>>},
     pages           |-> {GetFailed, PageOf(404, <<Href2>>, <<Addr1>>)} \cup
                         { PageOf(200, m, f) :
                             m \in SeqsUpTo(Hrefs, MaxLinks), f \in SeqsUpTo(Addrs, MaxFound) }]

\* what the searches and session.get can answer
\* a web whose pages are texts
TextWeb ==
    [results         |-> SeqsUpTo({Site1, Site2}, MaxResults),
     scholar_results |-> {<<ScholarProfile>>},
     pages           |-> {GetFailed} \cup {TextPage(text) : text \in Bodies}]

WebOf(w) == IF w = "full" THEN FullWeb ELSE IF w = "text" THEN TextWeb ELSE SmallWeb

SearchReplies == {SearchFailed} \cup {Results(u) : u \in WebOf(web).results}
ScholarReplies == {SearchFailed} \cup {Results(u) : u \in WebOf(web).scholar_results}
PageReplies == WebOf(web).pages

NextContacts ==
    \/ NextPair
    \/ Wake
    \/ \E reply \in SearchReplies : SearchReturns(reply)
    \/ \E reply \in ScholarReplies : ScholarReturns(reply)
    \/ \E reply \in PageReplies : GetReturns(reply)

InitContacts ==
    SetupContacts(SeqsUpTo({JaneSmith, AnnLee}, MaxPairs), {"small"})

SpecContacts == InitContacts /\ [][NextContacts]_vars

\* one author and a web of any results and pages within the bounds
InitEmail == SetupContacts({<<JaneSmith>>}, {"full"})

\* with one pair the loop never sleeps
NextEmail ==
    \/ NextPair
    \/ \E reply \in SearchReplies : SearchReturns(reply)
    \/ \E reply \in ScholarReplies : ScholarReturns(reply)
    \/ \E reply \in PageReplies : GetReturns(reply)

SpecEmail == InitEmail /\ [][NextEmail]_vars

\* one author and a web of text pages
InitText == SetupContacts({<<JaneSmith>>}, {"text"})

SpecText == InitText /\ [][NextEmail]_vars

---------------------------------------------------------------------------
(* analyze_mode (lines 404-587): /findcontact "name" and /getcontacts, from *)
(* the prompt to the call of get_contacts                                  *)

\* the modelled affiliation strings in the order of Python's str comparison
AffiliationOrder == <<"CMU", "MIT">>

dropna(col) == SelectSeq(col, LAMBDA v : v # NaN)

Count(col, v) == Cardinality({n \in 1..Len(col) : col[n] = v})

\* Series.mode(): the values of the highest count, sorted
mode(col) ==
    SelectSeq(AffiliationOrder,
              LAMBDA v : /\ Count(col, v) > 0
                         /\ \A w \in Affiliations : Count(col, w) <= Count(col, v))

AffiliationColumn(rows) == [n \in 1..Len(rows) |-> rows[n].Affiliation]

\* rows['Affiliation'].dropna().mode(), its element 0 or the branch's default
\* (lines 493-494, 565-569, 576-580)
MostCommonAffiliation(rows, default) ==
    LET most_common_affiliation == mode(dropna(AffiliationColumn(rows)))
    IN  IF most_common_affiliation # <<>> THEN most_common_affiliation[1] ELSE default

\* Series.str.contains(institution, case=False, na=False) on the modelled strings
str_contains(affiliation, institution) ==
    /\ affiliation # NaN
    /\ <<affiliation, institution>> \in
          { <<"MIT", "MIT">>, <<"MIT", "M">>, <<"CMU", "M">>, <<"CMU", "cmu">> }

AuthorCount(rows, a) == Cardinality({n \in 1..Len(rows) : rows[n].Author = a})

\* rows['Author'].value_counts().index: the authors by falling count; the order
\* among authors of equal count is the sort's
value_counts(rows) ==
    LET authors == {rows[n].Author : n \in 1..Len(rows)}
    IN  { o \in Orderings(authors) :
            \A a, b \in 1..Len(o) :
                a < b => AuthorCount(rows, o[a]) >= AuthorCount(rows, o[b]) }

head(s, k) == SubSeq(s, 1, Min(k, Len(s)))

RowsOfAuthor(rows, a) == SelectSeq(rows, LAMBDA r : r.Author = a)

\* lines 562-570 and 573-581: the pairs of the top k authors of a table
AuthorsInfoOf(rows, default, k) ==
    { [p \in 1..Len(top) |->
          Pair(top[p], MostCommonAffiliation(RowsOfAuthor(rows, top[p]), default))] :
      top \in { head(o, k) : o \in value_counts(rows) } }

\* line 557
inst_df(institution) ==
    SelectSeq(df, LAMBDA r : str_contains(r.Affiliation, institution))

\* lines 555-570: the institutions in turn, each adding its pairs
RECURSIVE AuthorsInfoByInstitution(_, _)
AuthorsInfoByInstitution(institutions, k) ==
    IF institutions = <<>> THEN {<<>>}
    ELSE { a \o b : a \in AuthorsInfoOf(inst_df(Head(institutions)),
                                        Head(institutions), k),
                    b \in AuthorsInfoByInstitution(Tail(institutions), k) }

\* lines 553-581
AuthorsInfo(institutions, k) ==
    IF institutions # <<>> THEN AuthorsInfoByInstitution(institutions, k)
    ELSE AuthorsInfoOf(df, None, k)

\* the command either goes back to the prompt (`continue`) or awaits
\* get_contacts(pairs), which runs to its for loop
CallGetContacts(pairs) ==
    IF pairs = <<>>
    THEN /\ apc' = "prompt"
         /\ UNCHANGED <<authors_with_affiliations, cpc>>
    ELSE /\ apc' = "contacts"
         /\ authors_with_affiliations' = pairs
         /\ cpc' = "loop"

\* lines 453-496 for a search term without '@'
FindContact(search_term) ==
    /\ apc = "prompt"
    /\ command' = Command("/findcontact", search_term, 0, <<>>)
    /\ LET author_data ==
               SelectSeq(df, LAMBDA r : LowerAll(r.Author) = LowerAll(search_term))
       IN  CallGetContacts(IF author_data = <<>> THEN <<>>
                           ELSE <<Pair(search_term,
                                       MostCommonAffiliation(author_data, None))>>)
    /\ UNCHANGED <<vars_scrape, df, web, pair_i, search_results, personal_site,
                   linkedin_url, scholar_url, email, url_index, response,
                   contacts_data, trace>>

\* lines 533-587
GetContacts(k, institutions) ==
    /\ apc = "prompt"
    /\ command' = Command("/getcontacts", <<>>, k, institutions)
    /\ \E authors_info \in AuthorsInfo(institutions, k) : CallGetContacts(authors_info)
    /\ UNCHANGED <<vars_scrape, df, web, pair_i, search_results, personal_site,
                   linkedin_url, scholar_url, email, url_index, response,
                   contacts_data, trace>>

\* the inputs of the commands
SearchTerms ==
    { <<"Jane", "Smith">>, <<"jane", "smith">>, <<"Ann", "Lee">>, <<"Bob", "Ray">> }
TopArgs == {1, 2}
InstitutionArgs == { <<>>, <<"MIT">>, <<"cmu">>, <<"M", "MIT">> }

\* the tables analyze_mode may find in the file: row n has the n-th title
AnalyzeCells ==
    [Author : {<<"Jane", "Smith">>, <<"Ann", "Lee">>},
     Affiliation : Affiliations \cup {NOT_AVAILABLE}]

AnalyzeFiles ==
    { File([n \in 1..Len(cells) |->
              Row("NeurIPS", 2006, Titles[n], cells[n].Author, cells[n].Affiliation)]) :
      cells \in SeqsUpTo(AnalyzeCells, MaxTable) }

\* analyze_mode at its prompt (lines 404-420), the file read
InitAnalyze ==
    /\ NoContacts
    /\ years = <<0, 0>>
    /\ parallel = 1
    /\ csv \in AnalyzeFiles
    /\ schedule = <<>>
    /\ site = SmallSite
    /\ faults = 0
    /\ phase = "idle"
    /\ targets = <<>>
    /\ existing_df = <<>>
    /\ permits = 1
    /\ pbar = [total |-> 0, n |-> 0]
    /\ tpc = <<>>
    /\ index_call = <<>>
    /\ paper_calls = <<>>
    /\ author_ids = <<>>
    /\ author_calls = <<>>
    /\ results = <<>>
    /\ combined_df = <<>>
    /\ df = read_csv(csv)
    /\ command = NoCommand
    /\ apc = "prompt"

NextAnalyze ==
    \/ \E search_term \in SearchTerms : FindContact(search_term)
    \/ \E k \in TopArgs : \E institutions \in InstitutionArgs :
          GetContacts(k, institutions)

SpecAnalyze == InitAnalyze /\ [][NextAnalyze]_vars

---------------------------------------------------------------------------
(* Properties *)

\* every fetch call of a target, in launch order
CallsOf(t) == <<index_call[t]>> \o paper_calls[t] \o author_calls[t]

Ended == phase \in {"saved", "exited"}

\* C1: at no time are more fetch attempts inside the request/response/parse
\* section than the configured parallelism, counting the calls of all targets
\* and of all three stages together.
C1_InFlightAtMostParallel == InFlightCount <= parallel

\* C1 witness: the gate is full with attempts of two targets in two different
\* stages, and a further call is kept waiting.
C1_Witness ==
    /\ InFlightCount = parallel
    /\ AnyWaiting
    /\ \E t, u \in T :
          /\ t # u
          /\ index_call[t].st = "flight"
          /\ \E k \in 1..Len(paper_calls[u]) : paper_calls[u][k].st = "flight"

\* C5: a call makes at most n_tries attempts; it is on a second or later attempt
\* only after a transient error; it raises with the transient error only when
\* that error ended attempt number n_tries; and it never ends by handing its
\* caller no document.
C5_RetryPolicy ==
    \A t \in T : \A i \in 1..Len(CallsOf(t)) :
        LET c == CallsOf(t)[i]
        IN  /\ c.tries <= n_tries
            /\ (Pending(c) /\ c.tries > 1) => c.err = "transient"
            /\ (c.st = "raised" /\ c.err = "transient") => c.tries = n_tries
            /\ c.st = "raised" =>
                  c.err \in {"transient", "fatal", "parse", "parse_error_page"}

\* C5 witness: a call has raised the transient error of its last attempt.
C5_Witness ==
    \E t \in T : \E i \in 1..Len(CallsOf(t)) :
        /\ CallsOf(t)[i].st = "raised"
        /\ CallsOf(t)[i].err = "transient"
        /\ CallsOf(t)[i].tries = n_tries

\* C6: the permits out plus the permits free are always the configured
\* parallelism, so with no attempt in flight every permit is free again,
\* however the attempts ended.
C6_PermitsConserved ==
    /\ permits + InFlightCount = parallel
    /\ InFlightCount = 0 => permits = parallel

\* C6 witness: the run is over after a transient error, an exception that was
\* not retried and a cancelled call, and every permit is back.
C6_Witness ==
    /\ phase = "exited"
    /\ faults < MaxFaults
    /\ \E t \in T : \E i \in 1..Len(CallsOf(t)) :
          CallsOf(t)[i].st = "raised" /\ CallsOf(t)[i].err = "fatal"
    /\ \E t \in T : \E i \in 1..Len(CallsOf(t)) : CallsOf(t)[i].st = "cancelled"
    /\ InFlightCount = 0
    /\ permits = parallel

\* the rows a parsed paper contributes to its target's result
HasRowsOf(t, paper) ==
    \A a \in 1..Len(paper.authors) :
        \E i \in 1..Len(results[t]) :
            /\ results[t][i].Title = paper.title
            /\ results[t][i].Author = paper.authors[a].name

\* C2: when the run is over, a target that lost one paper page to a terminal
\* failure and parsed another has still produced its result, with the rows of
\* every paper of the target that was parsed.
C2_PaperFailureIsolated ==
    Ended =>
        \A t \in T :
            (\E k, m \in 1..Len(paper_calls[t]) :
                paper_calls[t][k].st = "raised" /\ paper_calls[t][m].st = "ok")
            => /\ tpc[t] = "done"
               /\ \A k \in 1..Len(paper_calls[t]) :
                     paper_calls[t][k].st = "ok"
                     => HasRowsOf(t, paper_calls[t][k].res)

\* C3: when the run is over and the schedule page of one target failed
\* terminally, the rows of every other target that completed have been merged
\* and written to the output.
C3_IndexFailureAbortsOnlyTarget ==
    Ended =>
        \A t, u \in T :
            (/\ t # u
             /\ index_call[t].st = "raised"
             /\ tpc[u] = "done"
             /\ results[u] # <<>>)
            => /\ phase = "saved"
               /\ \A i \in 1..Len(results[u]) :
                     \E j \in 1..Len(csv.rows) : Key(csv.rows[j]) = Key(results[u][i])

\* C4: when the run is over, a target that lost an author page to a terminal
\* failure has still produced its result: every author entry of its papers has
\* a row, and the rows of the author whose page failed carry "n/a".
C4_AuthorFailureTolerated ==
    Ended =>
        \A t \in T :
            \A k \in 1..Len(author_calls[t]) :
                author_calls[t][k].st = "raised"
                => /\ tpc[t] = "done"
                   /\ \A p \in 1..Len(paper_calls[t]) :
                         HasRowsOf(t, paper_calls[t][p].res)
                   /\ \A p \in 1..Len(paper_calls[t]) :
                         \A a \in 1..Len(paper_calls[t][p].res.authors) :
                            paper_calls[t][p].res.authors[a].id = author_ids[t][k]
                            => \E i \in 1..Len(results[t]) :
                                  /\ results[t][i].Title = paper_calls[t][p].res.title
                                  /\ results[t][i].Author =
                                        paper_calls[t][p].res.authors[a].name
                                  /\ results[t][i].Affiliation = NOT_AVAILABLE

\* the ids on the author buttons of a target's parsed papers
IdsOnPapers(t) ==
    { id \in AuthorIdSet :
        \E p \in 1..Len(paper_calls[t]) :
            /\ paper_calls[t][p].st = "ok"
            /\ \E a \in 1..Len(paper_calls[t][p].res.authors) :
                  paper_calls[t][p].res.authors[a].id = id }

\* the target has passed line 96: all its paper pages are parsed
PapersParsed(t) == index_call[t].st = "ok" /\ AllOk(paper_calls[t])

AffiliationById(t, id) ==
    LET k == CHOOSE k \in 1..Len(author_ids[t]) : author_ids[t][k] = id
    IN  author_calls[t][k].res.affiliation

\* C8: the rows of a finished target carry, for every author button of every
\* paper, the affiliation of the author page fetched for the button's id.
C8_JoinByAuthorId ==
    \A t \in T :
        tpc[t] = "done"
        => results[t] =
             Flatten([p \in 1..Len(paper_calls[t]) |->
                [a \in 1..Len(paper_calls[t][p].res.authors) |->
                    Row(targets[t].conf, targets[t].year,
                        paper_calls[t][p].res.title,
                        paper_calls[t][p].res.authors[a].name,
                        AffiliationById(t, paper_calls[t][p].res.authors[a].id))]])

\* the first row of s with the key of r
FirstWithKey(s, r) ==
    s[CHOOSE i \in 1..Len(s) :
        /\ Key(s[i]) = Key(r)
        /\ \A j \in 1..(i - 1) : Key(s[j]) # Key(r)]

\* C9: after the merge no two rows share a key, every key of the concatenation
\* (file rows, then scraped rows) is kept, each kept row is the first row of the
\* concatenation with its key, and the rows of the file are all kept as read.
C9_FirstSeenWins ==
    phase = "saved" =>
        LET all == Combined(existing_df, results)
        IN  /\ \A i, j \in 1..Len(combined_df) :
                 i # j => Key(combined_df[i]) # Key(combined_df[j])
            /\ \A i \in 1..Len(all) :
                 \E j \in 1..Len(combined_df) : Key(combined_df[j]) = Key(all[i])
            /\ \A j \in 1..Len(combined_df) :
                 combined_df[j] = FirstWithKey(all, combined_df[j])
            /\ SubSeq(combined_df, 1, Len(existing_df)) = existing_df
            /\ csv = to_csv(combined_df)

\* C9 witness: a scraped row had the key of a row of the file and another
\* affiliation, and the merged rows hold the file's row.
C9_Witness ==
    /\ phase = "saved"
    /\ \E i \in 1..Len(existing_df) : \E j \in 1..Len(results[1]) :
          /\ Key(existing_df[i]) = Key(results[1][j])
          /\ existing_df[i].Affiliation # results[1][j].Affiliation
          /\ combined_df[i] = existing_df[i]

\* C10: the merge step applied to its own output, alone or together with the
\* same scraped rows, gives that output again.
C10_DedupIdempotent ==
    phase = "saved" =>
        /\ drop_duplicates(combined_df) = combined_df
        /\ drop_duplicates(Combined(combined_df, results)) = combined_df

\* C10 witness: the merge dropped rows, and rows are left.
C10_Witness ==
    /\ phase = "saved"
    /\ combined_df # <<>>
    /\ Len(combined_df) + 2 <= Len(Combined(existing_df, results))

\* the (title, name) pairs of a target's parsed papers, in page order
EntriesOf(t) ==
    Flatten([p \in 1..Len(paper_calls[t]) |->
        [a \in 1..Len(paper_calls[t][p].res.authors) |->
            [title |-> paper_calls[t][p].res.title,
             name  |-> paper_calls[t][p].res.authors[a].name]]])

\* C11: the rows of a finished target are, in order, one row per author button
\* of each parsed paper, with the target's conference and year, the paper's
\* title and the button's name; no author value comes from an author page only.
C11_OneRowPerPaperAuthor ==
    \A t \in T :
        tpc[t] = "done" =>
            /\ Len(results[t]) = Len(EntriesOf(t))
            /\ \A i \in 1..Len(results[t]) :
                  /\ results[t][i].Conference = targets[t].conf
                  /\ results[t][i].Year = targets[t].year
                  /\ results[t][i].Title = EntriesOf(t)[i].title
                  /\ results[t][i].Author = EntriesOf(t)[i].name
            /\ {results[t][i].Author : i \in 1..Len(results[t])}
                 \subseteq {EntriesOf(t)[i].name : i \in 1..Len(EntriesOf(t))}

\* C11 witness: a finished target with two rows whose fetched author page shows
\* a name that is on none of its papers.
C11_Witness ==
    \E t \in T :
        /\ tpc[t] = "done"
        /\ Len(results[t]) = 2
        /\ \E k \in 1..Len(author_calls[t]) :
              \A i \in 1..Len(EntriesOf(t)) :
                  author_calls[t][k].res.name # EntriesOf(t)[i].name

\* the entries of the trace about pair k (0-based)
EventsOf(k) == {e \in 1..Len(trace) : trace[e].i = k}
Happened(op, k) == \E e \in EventsOf(k) : trace[e].op = op

\* C12: there is one record per pair processed so far, record k carries the
\* author and the affiliation of pair k, and get_contacts returns with as many
\* records as pairs, whatever searches and page fetches failed.
C12_OneRecordPerPair ==
    /\ Len(contacts_data) = pair_i
    /\ Len(contacts_data) <= Len(authors_with_affiliations)
    /\ \A k \in 1..Len(contacts_data) :
          /\ contacts_data[k].Author = authors_with_affiliations[k].author
          /\ contacts_data[k].Affiliation = authors_with_affiliations[k].affiliation
    /\ cpc = "returned" => Len(contacts_data) = Len(authors_with_affiliations)

\* C12 witness: two different pairs; the search of the first failed, a page
\* fetch of the second raised, and both have their record.
C12_Witness ==
    /\ cpc = "returned"
    /\ Len(contacts_data) = 2
    /\ contacts_data[1].Author # contacts_data[2].Author
    /\ Happened("search_failed", 0)
    /\ Happened("get", 1)
    /\ response.raised

\* C13: the calls of the pairs are never interleaved: every sleep, search and
\* page fetch of a pair comes after the append of the pair before it, at most
\* one pair has started without its record appended, and the first search of
\* every pair but the first comes right after a sleep taken for that pair,
\* also when the pair before ended in the error record.
C13_SequentialWithDelay ==
    /\ \A a, b \in 1..Len(trace) : a < b => trace[a].i <= trace[b].i
    /\ \A b \in 1..Len(trace) :
          trace[b].i > 0 =>
             \E a \in 1..(b - 1) : trace[a].op = "append" /\ trace[a].i = trace[b].i - 1
    /\ Cardinality({k \in 0..MaxPairs : Happened("search", k) /\ ~Happened("append", k)}) <= 1
    /\ \A b \in 1..Len(trace) :
          (trace[b].op = "search" /\ trace[b].i > 0) =>
             /\ b > 1
             /\ trace[b - 1].op = "sleep"
             /\ trace[b - 1].i = trace[b].i
    /\ \A b \in 1..Len(trace) : trace[b].op = "sleep" => trace[b].i > 0

\* C13 witness: the first pair ended in the error record, and the second pair
\* slept, searched and got its record.
C13_Witness ==
    /\ cpc = "returned"
    /\ Happened("search_failed", 0)
    /\ contacts_data[1].Email = ERROR
    /\ Happened("sleep", 1)
    /\ Happened("get", 1)
    /\ Len(contacts_data) = 2

\* record k is the last one appended and the locals still hold its pair's values
LastEmitted(k) == k = Len(contacts_data) /\ cpc \notin {"scholar", "get"}

HasError(rec) ==
    ERROR \in {rec.Website, rec.LinkedIn, rec.GoogleScholar, rec.Email}

\* C14 (as stated): a pair one of whose two searches failed has a record with
\* no "Error" field, its second search was still made, and the fields that
\* depend on the failed search hold "n/a".
C14_SearchFailureDegradesOnly ==
    \A k \in 1..Len(contacts_data) :
        /\ Happened("scholar_failed", k - 1) =>
              ~HasError(contacts_data[k]) /\ contacts_data[k].GoogleScholar = NA
        /\ Happened("search_failed", k - 1) =>
              /\ ~HasError(contacts_data[k])
              /\ Happened("scholar", k - 1)
              /\ contacts_data[k].Website = NA
              /\ contacts_data[k].LinkedIn = NA
              /\ contacts_data[k].Email = NA

\* C14 (amended): a failed "google scholar" search leaves "n/a" in the Scholar
\* field and nothing else: no field is "Error", the LinkedIn field is the first
\* profile URL of the first search, the URLs of the first search are fetched,
\* and website and email are what the URL loop resolved. A failed "contact
\* email" search ends the pair with the all-"Error" record: no second search
\* and no page fetch is made for it.
C14_ScholarFailureDegradesOnly ==
    \A k \in 1..Len(contacts_data) :
        /\ Happened("scholar_failed", k - 1) =>
              /\ contacts_data[k].GoogleScholar = NA
              /\ ~HasError(contacts_data[k])
              /\ LastEmitted(k) =>
                    /\ contacts_data[k].LinkedIn = FirstLinkedIn(search_results)
                    /\ search_results # <<>> => Happened("get", k - 1)
                    /\ contacts_data[k].Website = personal_site
                    /\ contacts_data[k].Email = LowerAll(email)
        /\ Happened("search_failed", k - 1) =>
              /\ contacts_data[k] = ErrorContact(authors_with_affiliations[k])
              /\ ~Happened("scholar", k - 1)
              /\ ~Happened("get", k - 1)

\* C14 witness: the scholar search of a pair failed, and its record has the
\* LinkedIn profile and an email.
C14_Witness ==
    \E k \in 1..Len(contacts_data) :
        /\ Happened("scholar_failed", k - 1)
        /\ contacts_data[k].GoogleScholar = NA
        /\ contacts_data[k].LinkedIn = LinkedInProfile
        /\ contacts_data[k].Email = Addr2

\* C15: in every record the four contact fields are all "Error" or none is;
\* they are all "Error" exactly when the pair's first search failed; in any
\* other record a field for which nothing was resolved holds "n/a".
C15_ErrorAllOrNone ==
    \A k \in 1..Len(contacts_data) :
        LET rec == contacts_data[k]
        IN  /\ \/ {rec.Website, rec.LinkedIn, rec.GoogleScholar, rec.Email} = {ERROR}
               \/ ~HasError(rec)
            /\ HasError(rec) <=> Happened("search_failed", k - 1)
            /\ (~Happened("search_failed", k - 1) /\ LastEmitted(k)) =>
                  /\ (\A u \in 1..Len(search_results) :
                         ~IsLinkedInProfile(search_results[u])) => rec.LinkedIn = NA
                  /\ (\A u \in 1..Len(search_results) :
                         Excluded(search_results[u])) => rec.Website = NA
                  /\ Happened("scholar_failed", k - 1) => rec.GoogleScholar = NA
                  /\ email = NA => rec.Email = NA
                  /\ ~Happened("get", k - 1) => rec.Email = NA

\* C15 witness: an all-"Error" record next to a record with a website and
\* "n/a" for the email and the Scholar profile.
C15_Witness ==
    /\ Len(contacts_data) = 2
    /\ contacts_data[1] = ErrorContact(authors_with_affiliations[1])
    /\ contacts_data[2].Website = Site1
    /\ contacts_data[2].Email = NA
    /\ contacts_data[2].GoogleScholar = NA

\* a URL whose host is one of the four excluded hosts
OnExcludedDomain(url) ==
    url[1] \in {"linkedin.com", "scholar.google.com", "dblp.org", "twitter.com"}

\* C16: the website of a record whose first search succeeded is the first
\* search result that is not on an excluded domain, or "n/a" when every
\* result is on one.
C16_WebsiteIsFirstCandidate ==
    \A k \in 1..Len(contacts_data) :
        (LastEmitted(k) /\ ~Happened("search_failed", k - 1)) =>
            LET at == {u \in 1..Len(search_results) :
                          ~OnExcludedDomain(search_results[u])}
            IN  contacts_data[k].Website =
                   IF at = {} THEN NA
                   ELSE search_results[CHOOSE u \in at : \A m \in at : u <= m]

\* the last response has just been read and the pair's record appended
JustRead ==
    /\ cpc \in {"loop", "returned"}
    /\ Len(trace) >= 2
    /\ trace[Len(trace)].op = "append"
    /\ trace[Len(trace) - 1].op = "get"
    /\ ~response.raised
    /\ response.status = 200

\* C17: after a page with both mailto links and pattern matches was read,
\* email is the address of the page's first mailto link and none of the
\* pattern matches, and the record holds that address (lower-cased).
C17_MailtoFirst ==
    (JustRead /\ response.mailto_links # <<>> /\ response.found_emails # <<>>) =>
        /\ email = MailtoAddress(response.mailto_links[1])
        /\ \A f \in 1..Len(response.found_emails) : email # response.found_emails[f]
        /\ contacts_data[Len(contacts_data)].Email = LowerAll(email)

\* C17 witness: the page had two mailto links and a pattern match holding the
\* surname; the email is the first link's address, cut at its query.
C17_Witness ==
    /\ JustRead
    /\ response.mailto_links = <<Href1, Href2>>
    /\ response.found_emails = <<Addr2>>
    /\ email = <<"J.Smith", "@", "MIT.edu">>
    /\ contacts_data[Len(contacts_data)].Email = <<"j.smith", "@", "mit.edu">>

\* C18: after a page without mailto links and with pattern matches was read,
\* email is the first match that contains the author's lower-cased last name,
\* or the first match when none contains it.
C18_SurnamePreferred ==
    (JustRead /\ response.mailto_links = <<>> /\ response.found_emails # <<>>) =>
        LET author == authors_with_affiliations[Len(contacts_data)].author
            found  == response.found_emails
            at     == {f \in 1..Len(found) : Contains(found[f], <<Lower(author[Len(author)])>>)}
        IN  email = IF at = {} THEN found[1]
                    ELSE found[CHOOSE f \in at : \A m \in at : f <= m]

\* C18 witness: the matches are info@example.com then smith@example.com for
\* Jane Smith, and the email is smith@example.com.
C18_Witness ==
    /\ JustRead
    /\ authors_with_affiliations[Len(contacts_data)] = JaneSmith
    /\ response.mailto_links = <<>>
    /\ response.found_emails = <<Addr1, Addr2>>
    /\ email = Addr2
    /\ contacts_data[Len(contacts_data)].Email = Addr2

\* the last attempt of the call got a response with a 4xx/5xx status
GotHttpError(c) == c.err \in {"http_error", "parse_error_page"}

\* C19: a call whose attempt ended in a non-transient error has raised on that
\* attempt; when the error was a 4xx/5xx response the call has raised it as the
\* fetch error, without the response's document going to the parser.
C19_HttpErrorFailsCall ==
    \A t \in T : \A k \in 1..Len(CallsOf(t)) :
        LET c == CallsOf(t)[k]
        IN  /\ c.err = "fatal" => c.st = "raised"
            /\ GotHttpError(c) => (c.st = "raised" /\ c.err = "http_error")

\* the fetch calls the run has made, over all targets and stages
FetchCalls == SumSeq([t \in T |-> Len(CallsOf(t))])

\* every call returned the document of a 2xx response
Succeeded(calls) ==
    \A k \in 1..Len(calls) : calls[k].st = "ok" /\ calls[k].err = "none"

\* C20: the completed counter never exceeds the expected total, and at the end
\* of a run in which every fetch call succeeded both counters equal the number
\* of fetch calls, however many attempts the calls needed.
C20_ProgressCountsCalls ==
    /\ pbar.n <= pbar.total
    /\ (phase = "saved" /\ \A t \in T : Succeeded(CallsOf(t))) =>
           (pbar.n = FetchCalls /\ pbar.total = FetchCalls)

\* the pipelines scrape_mode has started for conference c and year y
PipelinesFor(c, y) ==
    {t \in T : /\ targets[t] = [conf |-> CONFERENCES[c].name, year |-> y]
               /\ tpc[t] # "new"}

\* the targets whose schedule page has been asked for
Fetched == {t \in T : index_call[t].st # "new"}

\* C21: once the batch is launched, a (conference, year) pair of the requested
\* range has exactly one pipeline when the year is at least the conference's
\* first year and none otherwise; every pipeline and every fetch belongs to
\* such a pair.
C21_OnlySupportedYears ==
    phase # "setup" =>
        /\ \A c \in 1..Len(CONFERENCES) : \A y \in years[1]..years[2] :
              Cardinality(PipelinesFor(c, y)) =
                 (IF y >= CONFERENCES[c].first_year THEN 1 ELSE 0)
        /\ \A t \in T :
              /\ targets[t].year \in years[1]..years[2]
              /\ \E c \in 1..Len(CONFERENCES) :
                    /\ CONFERENCES[c].name = targets[t].conf
                    /\ targets[t].year >= CONFERENCES[c].first_year
        /\ Fetched \subseteq {t \in T : tpc[t] # "new"}

\* a range with a year below and a year at NeurIPS's first year, launched
C21_Witness ==
    /\ years = <<2005, 2006>>
    /\ phase = "running"
    /\ Cardinality(Fetched) = 1
    /\ targets[1] = [conf |-> "NeurIPS", year |-> 2006]

\* the tables a pair of the served command may have been resolved over
FramesOf(cmd) ==
    IF cmd.institutions = <<>> THEN {df}
    ELSE {inst_df(cmd.institutions[n]) : n \in 1..Len(cmd.institutions)}

\* the known affiliations of an author's rows, in row order
KnownAffiliations(rows, author) ==
    dropna(AffiliationColumn(
        SelectSeq(rows, LAMBDA r : LowerAll(r.Author) = LowerAll(author))))

FirstIndex(col, v) == CHOOSE n \in 1..Len(col) : col[n] = v /\ \A m \in 1..(n - 1) : col[m] # v

\* the most frequent value of a column, the first encountered among equals
FirstEncounteredMode(col) ==
    CHOOSE v \in {col[n] : n \in 1..Len(col)} :
        \A w \in {col[n] : n \in 1..Len(col)} :
            \/ Count(col, w) < Count(col, v)
            \/ Count(col, w) = Count(col, v) /\ FirstIndex(col, v) <= FirstIndex(col, w)

\* C22: the affiliation handed to get_contacts for an author with known
\* affiliations is the most frequent one of the author's rows, and among
\* affiliations of equal highest count the one that comes first in row order.
C22_ModeTiesFirstEncountered ==
    apc = "contacts" =>
        \A p \in 1..Len(authors_with_affiliations) :
            LET pair == authors_with_affiliations[p]
            IN  \E rows \in FramesOf(command) :
                    IF KnownAffiliations(rows, pair.author) = <<>>
                    THEN pair.affiliation \notin Affiliations
                    ELSE pair.affiliation =
                            FirstEncounteredMode(KnownAffiliations(rows, pair.author))

PlainAddress == <<"name", "@", "example", ".", "com">>

Launched(calls) == \A k \in 1..Len(calls) : calls[k].st # "new"

\* C24: a target has paper calls only once its schedule page has returned, one
\* per paper id and all of them started; it has author calls only once every
\* one of its paper calls has returned, one per author id and all of them
\* started.
C24_StagesInOrder ==
    \A t \in T :
        /\ phase # "setup" => index_call[t].st # "new"
        /\ paper_calls[t] # <<>> =>
              /\ index_call[t].st = "ok"
              /\ Len(paper_calls[t]) = Len(index_call[t].res)
              /\ Launched(paper_calls[t])
        /\ author_calls[t] # <<>> =>
              /\ \A k \in 1..Len(paper_calls[t]) : paper_calls[t][k].st = "ok"
              /\ Len(author_calls[t]) = Len(author_ids[t])
              /\ Launched(author_calls[t])

\* C24 witness: one target has an author page in flight while another target
\* is still fetching its schedule page
C24_Witness ==
    \E t, u \in T :
        /\ tpc[t] = "authors"
        /\ \E k \in 1..Len(author_calls[t]) : author_calls[t][k].st = "flight"
        /\ tpc[u] = "index"
        /\ Pending(index_call[u])

\* the page fetches of the pair with index k that the trace holds before position a
GetsBefore(k, a) == {b \in 1..(a - 1) : trace[b].op = "get" /\ trace[b].i = k}

GetFails == cpc = "get" /\ (response'.raised \/ response'.status # 200)

\* C26: when the fetch of a candidate page fails, the step leaves the email
\* unresolved and the website, LinkedIn and Scholar fields it had resolved as
\* they are; it goes on to the next result if there is one, and otherwise
\* appends the pair's record, which holds these fields and no "Error".
C26_PageFailureSwallowed ==
    [][GetFails =>
          /\ email' = email
          /\ linkedin_url' = linkedin_url
          /\ scholar_url' = scholar_url
          /\ personal_site # NA => personal_site' = personal_site
          /\ IF url_index < Len(search_results)
             THEN /\ cpc' = "get"
                  /\ url_index' = url_index + 1
                  /\ trace' = Append(trace, Event("get", pair_i, url_index + 1))
                  /\ contacts_data' = contacts_data
             ELSE /\ Len(contacts_data') = Len(contacts_data) + 1
                  /\ contacts_data'[Len(contacts_data')] =
                        Contact(CurrentPair, personal_site, linkedin_url, scholar_url, email)
                  /\ ERROR \notin {personal_site, linkedin_url, scholar_url, email}
    ]_vars

\* C26 witness: the first of two pages failed, the second was fetched and
\* answered 404, and the record was appended with no email and no "Error"
C26_Witness ==
    /\ cpc \in {"loop", "returned"}
    /\ Len(trace) >= 3
    /\ trace[Len(trace)].op = "append"
    /\ trace[Len(trace) - 1] = Event("get", 0, 2)
    /\ response.status = 404
    /\ contacts_data[Len(contacts_data)].Email = NA
    /\ contacts_data[Len(contacts_data)].Website # ERROR

\* C27: the output file changes only in the one step that saves, which is taken
\* with at least one target and every target's pipeline completed; a run that
\* has saved, was aborted or has exited does not write.
C27_WriteOnceAfterAll ==
    [][/\ csv' # csv => (phase = "running" /\ phase' = "saved")
       /\ phase' = "saved" =>
             /\ phase = "running"
             /\ Len(targets) > 0
             /\ \A t \in T : tpc[t] = "done" /\ \A k \in 1..Len(CallsOf(t)) :
                                                  CallsOf(t)[k].st = "ok"
             /\ csv' = to_csv(drop_duplicates(existing_df \o Flatten(results)))
       /\ phase \in {"saved", "aborted", "exited"} => csv' = csv
    ]_vars

\* C27 witness: the run has exited after one target raised; another target had
\* completed with rows, and the file of the earlier run is as it was
C27_Witness ==
    /\ phase = "exited"
    /\ csv.exists
    /\ existing_df = read_csv(csv)
    /\ \E t, u \in T : /\ tpc[t] = "done" /\ results[t] # <<>>
                       /\ tpc[u] = "failed"

\* every call the run has made has returned, raised or been cancelled
AllCallsEnded ==
    \A t \in T : \A k \in 1..Len(CallsOf(t)) :
        CallsOf(t)[k].st \in {"ok", "raised", "cancelled"}

\* in this step every call that waits for a permit goes on waiting or moves to
\* one of the given states
WaitersMoveTo(states) ==
    \A t \in T : \A k \in 1..Len(CallsOf(t)) :
        CallsOf(t)[k].st = "wait" => CallsOf(t)'[k].st \in {"wait"} \cup states

====
